---- MODULE Spec2Model ----
(***************************************************************************)
(* Model of floating-point-error-for-combined-functions.ipynb: the cells   *)
(* of the notebook run top to bottom, each cell is one action.  Under       *)
(* SpecRerun a cell may also be run again once the last cell has run.      *)
(*                                                                         *)
(* Numbers.  A 64-bit float result (np.sin(x)/x, a polynomial value) is a  *)
(* multiple of Ulp; an mpmath value is any integer, so one float spacing   *)
(* holds Ulp reference steps.  What sin and the polynomial evaluation      *)
(* return for a sample is not computable here: it is a function of the     *)
(* sample fixed before the run (mpSinc, npSinc, polyval), every function   *)
(* over the small value ranges being explored.  N, the constant of the     *)
(* first cell, is any order bound from 1 to MaxN.                          *)
(* A series coefficient (-1)**i / factorial(2*i+1) is the float nearest to *)
(* num/den (Python's true division is correctly rounded); it is written    *)
(* as the record [num, den] that names that float.                         *)
(***************************************************************************)
EXTENDS Integers, Sequences, FiniteSets, TLC

\* ---- bounds of the model ------------------------------------------------
MaxN == 3
NumSamples == 2
Ulp == 4
MaxReruns == 2

\* ---- constants of the script --------------------------------------------
LogStart == -10
LogStop == 0
Dps == 1000
MantBits == 53
FloatDps == 16

VARIABLES pc, execution_count, loop, N, x_range, series_coef, series, dps, ref, refDps, x, r_orig,
          r_series, err_orig, err_series, errDps, better, similar, worse,
          difference, report, y_data, scatters, yticks, mpSinc, npSinc, polyval

vars == <<pc, execution_count, loop, N, x_range, series_coef, series, dps, ref, refDps, x, r_orig,
          r_series, err_orig, err_series, errDps, better, similar, worse,
          difference, report, y_data, scatters, yticks, mpSinc, npSinc, polyval>>

\* ---- small arithmetic ---------------------------------------------------
Abs(v) == IF v < 0 THEN -v ELSE v

MinOf(a, b) == IF a <= b THEN a ELSE b

RECURSIVE factorial(_)
factorial(n) == IF n <= 1 THEN 1 ELSE n * factorial(n - 1)

\* (-1)**i
Sign(i) == IF i % 2 = 0 THEN 1 ELSE -1

RECURSIVE Pow2(_)
Pow2(n) == IF n <= 0 THEN 1 ELSE 2 * Pow2(n - 1)

RECURSIVE BitLen(_)
BitLen(v) == IF v <= 0 THEN 0 ELSE 1 + BitLen(v \div 2)

\* a magnitude rounded to nearest, ties to even, on a MantBits-bit significand
RoundMag(v) ==
  IF BitLen(v) <= MantBits THEN v
  ELSE LET q == Pow2(BitLen(v) - MantBits)
           lo == (v \div q) * q
           r == v - lo
       IN IF 2 * r < q THEN lo
          ELSE IF 2 * r > q THEN lo + q
          ELSE IF (lo \div q) % 2 = 0 THEN lo ELSE lo + q

\* .astype(float) of an mpf
AsFloat(v) == IF v < 0 THEN -RoundMag(-v) ELSE RoundMag(v)

\* ---- sequences as Python lists and numpy arrays -------------------------
SeqMin(s) == CHOOSE m \in {s[i] : i \in 1..Len(s)} : \A i \in 1..Len(s) : m <= s[i]

SeqMax(s) == CHOOSE m \in {s[i] : i \in 1..Len(s)} : \A i \in 1..Len(s) : m >= s[i]

\* a[mask]: the elements of a where mask is True, in order
RECURSIVE SelectMask(_, _)
SelectMask(a, mask) ==
  IF a = <<>> \/ mask = <<>> THEN <<>>
  ELSE IF Head(mask) THEN <<Head(a)>> \o SelectMask(Tail(a), Tail(mask))
       ELSE SelectMask(Tail(a), Tail(mask))

\* zip(a, b): stops at the shorter of the two
Zip(a, b) == [j \in 1..MinOf(Len(a), Len(b)) |-> <<a[j], b[j]>>]

\* number of positions of list[::2]
Step2Len(list) == (Len(list) + 1) \div 2

\* list[::2] = vals, for Len(vals) = Step2Len(list)
Step2Assign(list, vals) ==
  [p \in 1..Len(list) |-> IF p % 2 = 1 THEN vals[(p + 1) \div 2] ELSE list[p]]

\* list[start::-1] for start >= 0 (0-based): from index start, clamped to the
\* last element, down to index 0
SliceDown(list, start) ==
  LET s0 == MinOf(start, Len(list) - 1)
  IN [p \in 1..(s0 + 1) |-> list[s0 + 2 - p]]

\* ---- cell 1: samples and series -----------------------------------------
Zero == [num |-> 0, den |-> 1]

\* a coefficient with the factorial of 2*i
CoefEvenFactorial(i) == [num |-> Sign(i), den |-> factorial(2 * i)]

\* (-1)**i / factorial(2*i + 1)
Coef(i) == [num |-> Sign(i), den |-> factorial(2 * i + 1)]

\* [(-1)**i / factorial(2*i + 1) for i in range(N)]
CoefList(n) == [p \in 1..n |-> Coef(p - 1)]

\* the samples of exponents a hundred times deeper
LogSpaceDeep(start, stop, num) ==
  [j \in 1..num |-> IF num = 1 THEN 100 * start
                    ELSE 100 * start * (num - 1) + (j - 1) * (stop - 100 * start)]

\* np.logspace(start, stop, num): sample j is 10 ** e_j with e_j evenly spaced
\* from start to stop; a sample is written as e_j * (num - 1), an integer
LogSpace(start, stop, num) ==
  [j \in 1..num |-> IF num = 1 THEN start
                    ELSE start * (num - 1) + (j - 1) * (stop - start)]

SampleVals == {LogSpace(LogStart, LogStop, NumSamples)[j] : j \in 1..NumSamples}

\* np.trim_zeros(c, 'f') as np.poly1d applies it; an all-zero list gives [0.]
RECURSIVE TrimFront(_)
TrimFront(c) ==
  IF c = <<>> THEN <<Zero>>
  ELSE IF Head(c).num = 0 THEN TrimFront(Tail(c)) ELSE c

Poly1d(c) == [coef |-> TrimFront(c)]

\* a zero list two elements longer
ZeroListLong(n) == [p \in 1..(2 * n + 1) |-> Zero]

\* [0.] * (2*N - 1)
ZeroList(n) == [p \in 1..(2 * n - 1) |-> Zero]

\* the polynomials of range(N): one more, starting at order 0
SeriesFromZero(sc, n) == [i \in 1..n |-> Poly1d(SliceDown(sc, 2 * (i - 1)))]

\* [np.poly1d(series_coef[2*i::-1]) for i in range(1, N)]
SeriesOf(sc, n) == [i \in 1..(n - 1) |-> Poly1d(SliceDown(sc, 2 * i))]

\* a float result is one of the two floats around the reference value
FloatVals == {0, 1}

\* the reference value lies in the lower half of that float spacing, ends included
RefVals == 0..(Ulp \div 2)

Init ==
  /\ pc = "series"
  /\ execution_count = 0
  /\ loop = <<>>
  /\ N \in 1..MaxN
  /\ x_range = <<>>
  /\ series_coef = <<>>
  /\ series = <<>>
  /\ dps = 15
  /\ ref = <<>>
  /\ refDps = 0
  /\ x = <<>>
  /\ r_orig = <<>>
  /\ r_series = <<>>
  /\ err_orig = <<>>
  /\ err_series = <<>>
  /\ errDps = 0
  /\ better = <<>>
  /\ similar = <<>>
  /\ worse = <<>>
  /\ difference = <<>>
  /\ report = <<>>
  /\ y_data = <<>>
  /\ scatters = <<>>
  /\ yticks = <<>>
  /\ mpSinc \in [SampleVals -> RefVals]
  /\ npSinc \in [SampleVals -> FloatVals]
  /\ polyval \in [1..(N - 1) -> [SampleVals -> FloatVals]]

SeriesCell(from, to) ==
  /\ pc = from
  /\ execution_count' = execution_count + 1
  /\ x_range' = LogSpace(LogStart, LogStop, NumSamples)
  /\ LET vals == CoefList(N)
         ok == Step2Len(ZeroList(N)) = Len(vals)
     IN /\ series_coef' = IF ok THEN Step2Assign(ZeroList(N), vals) ELSE ZeroList(N)
        /\ series' = IF ok THEN SeriesOf(series_coef', N) ELSE <<>>
        /\ pc' = IF ok THEN to ELSE "error"
  /\ UNCHANGED <<loop, N, dps, ref, refDps, x, r_orig, r_series, err_orig,
                 err_series, errDps, better, similar, worse, difference, report,
                 y_data, scatters, yticks, mpSinc, npSinc, polyval>>

SeriesBuilder == SeriesCell("series", "reference")

\* reference values of all samples but the first
RefOfTail(xs) == [j \in 1..(Len(xs) - 1) |-> mpSinc[xs[j + 1]]]

\* ---- cell 2: reference values --------------------------------------------
\* [mp.sin(x)/x for z in x_range for x in (mp.mpf(z),)]
RefOf(xs) == [j \in 1..Len(xs) |-> mpSinc[xs[j]]]

\* the float 10.0 ** e of a sample is 0.0 once e is below the float64 range
SampleIsZero(xv) == xv <= -324 * (IF NumSamples = 1 THEN 1 ELSE NumSamples - 1)

\* a value near 1 at d significant digits: below FloatDps digits it is rounded
\* to the float spacing, ties to even
MpAt(v, d) ==
  IF d > FloatDps THEN v
  ELSE LET lo == (v \div Ulp) * Ulp
           r == v - lo
       IN IF 2 * r < Ulp THEN lo
          ELSE IF 2 * r > Ulp THEN lo + Ulp
          ELSE IF (lo \div Ulp) % 2 = 0 THEN lo ELSE lo + Ulp

AtPrecision(vals, d) == [j \in 1..Len(vals) |-> MpAt(vals[j], d)]

\* the reference values computed before the precision is raised
ReferenceCellEarly(from, to) ==
  /\ pc = from
  /\ execution_count' = execution_count + 1
  /\ dps' = Dps
  /\ IF \E j \in 1..Len(x_range) : SampleIsZero(x_range[j])
     THEN /\ pc' = "error"
          /\ UNCHANGED <<ref, refDps>>
     ELSE /\ ref' = AtPrecision(RefOf(x_range), dps)
          /\ refDps' = dps
          /\ pc' = to
  /\ UNCHANGED <<loop, N, x_range, series_coef, series, x, r_orig, r_series,
                 err_orig, err_series, errDps, better, similar, worse, difference,
                 report, y_data, scatters, yticks, mpSinc, npSinc, polyval>>

\* mp.sin(x)/x of a sample that is 0.0 raises ZeroDivisionError
ReferenceCell(from, to) ==
  /\ pc = from
  /\ execution_count' = execution_count + 1
  /\ dps' = Dps
  /\ IF \E j \in 1..Len(x_range) : SampleIsZero(x_range[j])
     THEN /\ pc' = "error"
          /\ UNCHANGED <<ref, refDps>>
     ELSE /\ ref' = AtPrecision(RefOf(x_range), dps')
          /\ refDps' = dps'
          /\ pc' = to
  /\ UNCHANGED <<loop, N, x_range, series_coef, series, x, r_orig, r_series,
                 err_orig, err_series, errDps, better, similar, worse, difference,
                 report, y_data, scatters, yticks, mpSinc, npSinc, polyval>>

\* the first run of the cell with the reference values computed too early
ReferenceEvaluatorEarly == ReferenceCellEarly("reference", "evaluate")

ReferenceEvaluator == ReferenceCell("reference", "evaluate")

\* ---- cell 3: the two standard-precision evaluations ---------------------
\* np.sin(x) / x
DirectOf(xs) == [j \in 1..Len(xs) |-> npSinc[xs[j]] * Ulp]

\* [s(x) for s in series]
SeriesValuesOf(ss, xs) ==
  [k \in 1..Len(ss) |-> [j \in 1..Len(xs) |-> polyval[k][xs[j]] * Ulp]]

\* the samples reversed in place through the alias x
EvaluateCellInPlace(from, to) ==
  /\ pc = from
  /\ execution_count' = execution_count + 1
  /\ x' = [j \in 1..Len(x_range) |-> x_range[Len(x_range) + 1 - j]]
  /\ x_range' = x'
  /\ r_orig' = DirectOf(x')
  /\ r_series' = SeriesValuesOf(series, x')
  /\ pc' = to
  /\ UNCHANGED <<loop, N, series_coef, series, dps, ref, refDps, err_orig,
                 err_series, errDps, better, similar, worse, difference, report,
                 y_data, scatters, yticks, mpSinc, npSinc, polyval>>

EvaluateCell(from, to) ==
  /\ pc = from
  /\ execution_count' = execution_count + 1
  /\ x' = x_range
  /\ r_orig' = DirectOf(x')
  /\ r_series' = SeriesValuesOf(series, x')
  /\ pc' = to
  /\ UNCHANGED <<loop, N, x_range, series_coef, series, dps, ref, refDps, err_orig,
                 err_series, errDps, better, similar, worse, difference, report,
                 y_data, scatters, yticks, mpSinc, npSinc, polyval>>

Evaluate == EvaluateCell("evaluate", "compare")

\* ---- cell 4: errors, classification, report -----------------------------
\* [abs(a - b) for a, b in zip(r, ref)]
ErrOf(r, rf) ==
  LET ab == Zip(r, rf)
  IN [j \in 1..Len(ab) |-> Abs(ab[j][1] - ab[j][2])]

\* np.array of the rows: shape (R, C), or (0,) when there is no row
Cols(rows) == IF rows = <<>> THEN 0 ELSE Len(rows[1])

\* numpy broadcasting of a, shape (n,), against rows
Broadcastable(a, rows) ==
  IF rows = <<>> THEN Len(a) <= 1
  ELSE Len(a) = Cols(rows) \/ Len(a) = 1 \/ Cols(rows) = 1

\* the pairs with a taken from the other end
BroadcastReversed(a, rows) ==
  LET width == IF Cols(rows) = 1 THEN Len(a) ELSE Cols(rows)
  IN [k \in 1..Len(rows) |->
        [j \in 1..width |-> <<a[IF Len(a) = 1 THEN 1 ELSE Len(a) + 1 - j],
                              rows[k][IF Cols(rows) = 1 THEN 1 ELSE j]>>]]

\* the pairs (a[j], rows[k][j]) that an elementwise operation of a and rows
\* works on, an axis of length 1 being stretched
Broadcast(a, rows) ==
  LET width == IF Cols(rows) = 1 THEN Len(a) ELSE Cols(rows)
  IN [k \in 1..Len(rows) |->
        [j \in 1..width |-> <<a[IF Len(a) = 1 THEN 1 ELSE j],
                              rows[k][IF Cols(rows) = 1 THEN 1 ELSE j]>>]]

\* a comparison that also holds on a tie
LtOrEqual(a, b) == a <= b

Lt(a, b) == a < b

Eq(a, b) == a = b

\* a comparison that also holds on a tie
GtOrEqual(a, b) == a >= b

Gt(a, b) == a > b

\* np.abs((a - b).astype(float))
AbsDiff(a, b) == Abs(AsFloat(a - b))

BetterOf(eo, es) ==
  LET ab == Broadcast(eo, es)
  IN [k \in 1..Len(ab) |-> [j \in 1..Len(ab[k]) |-> Lt(ab[k][j][1], ab[k][j][2])]]

SimilarOf(eo, es) ==
  LET ab == Broadcast(eo, es)
  IN [k \in 1..Len(ab) |-> [j \in 1..Len(ab[k]) |-> Eq(ab[k][j][1], ab[k][j][2])]]

WorseOf(eo, es) ==
  LET ab == Broadcast(eo, es)
  IN [k \in 1..Len(ab) |-> [j \in 1..Len(ab[k]) |-> Gt(ab[k][j][1], ab[k][j][2])]]

DifferenceOf(eo, es) ==
  LET ab == Broadcast(eo, es)
  IN [k \in 1..Len(ab) |-> [j \in 1..Len(ab[k]) |-> AbsDiff(ab[k][j][1], ab[k][j][2])]]

\* a report that selects on the first mask
ReportMaskBetter(b, s, w) == b

\* the mask the report selects on
ReportMask(b, s, w) == w

\* d[w] for d, w in zip(difference, mask)
Selected(d, mask) ==
  [k \in 1..MinOf(Len(d), Len(mask)) |-> SelectMask(d[k], mask[k])]

\* [(d[w].min(), d[w].max()) for d, w in zip(difference, mask)]
ReportOf(d, mask) ==
  LET sel == Selected(d, mask)
  IN [k \in 1..Len(sel) |-> <<SeqMin(sel[k]), SeqMax(sel[k])>>]

\* .min() of an empty selection raises
ReportFails(d, mask) ==
  LET sel == Selected(d, mask)
  IN \E k \in 1..Len(sel) : sel[k] = <<>>

ComparatorCell(from, to) ==
  /\ pc = from
  /\ execution_count' = execution_count + 1
  /\ err_orig' = ErrOf(r_orig, ref)
  /\ err_series' = [k \in 1..Len(r_series) |-> ErrOf(r_series[k], ref)]
  /\ errDps' = dps
  /\ IF ~Broadcastable(err_orig', err_series')
     THEN /\ pc' = "error"
          /\ UNCHANGED <<better, similar, worse, difference, report>>
     ELSE /\ better' = BetterOf(err_orig', err_series')
          /\ similar' = SimilarOf(err_orig', err_series')
          /\ worse' = WorseOf(err_orig', err_series')
          /\ difference' = DifferenceOf(err_orig', err_series')
          /\ IF ReportFails(difference', ReportMask(better', similar', worse'))
             THEN /\ pc' = "error"
                  /\ UNCHANGED report
             ELSE /\ report' = ReportOf(difference', ReportMask(better', similar', worse'))
                  /\ pc' = to
  /\ UNCHANGED <<loop, N, x_range, series_coef, series, dps, ref, refDps, x, r_orig,
                 r_series, y_data, scatters, yticks, mpSinc, npSinc, polyval>>

Comparator == ComparatorCell("compare", "epsilon")

\* ---- cell 5: print(sys.float_info.epsilon / 2) --------------------------
EpsilonCell(from, to) ==
  /\ pc = from
  /\ execution_count' = execution_count + 1
  /\ pc' = to
  /\ UNCHANGED <<loop, N, x_range, series_coef, series, dps, ref, refDps, x, r_orig,
                 r_series, err_orig, err_series, errDps, better, similar, worse,
                 difference, report, y_data, scatters, yticks, mpSinc, npSinc,
                 polyval>>

PrintEpsilon == EpsilonCell("epsilon", "plot")

\* ---- cell 6: the plot ---------------------------------------------------
\* the row at the degree of the polynomial
RowOfDegree(s) == Len(s.coef) - 1

\* the row of a polynomial: len(s.coef)
RowOf(s) == Len(s.coef)

\* [np.repeat(len(s.coef), len(x_range)) for s in series]
YDataOf(ss, xs) == [k \in 1..Len(ss) |-> [j \in 1..Len(xs) |-> RowOf(ss[k])]]

Scatter(xs, ys, mask, marker, c) ==
  [xs |-> SelectMask(xs, mask), ys |-> SelectMask(ys, mask), marker |-> marker, c |-> c]

\* the first and the last mask exchanged
RowScattersSwapped(xs, y, b, s, w) ==
  << Scatter(xs, y, w, "^", "#2ca02c"),
     Scatter(xs, y, s, "o", "#1f77b4"),
     Scatter(xs, y, b, "v", "#d62728") >>

\* the three ax.scatter calls of one turn of the loop
RowScatters(xs, y, b, s, w) ==
  << Scatter(xs, y, b, "^", "#2ca02c"),
     Scatter(xs, y, s, "o", "#1f77b4"),
     Scatter(xs, y, w, "v", "#d62728") >>

\* for y, b, s, w in zip(y_data, better, similar, worse)
ScattersOf(xs, yd, b, s, w) ==
  LET rows == MinOf(MinOf(Len(yd), Len(b)), MinOf(Len(s), Len(w)))
  IN [p \in 1..(3 * rows) |->
        LET k == ((p - 1) \div 3) + 1
        IN RowScatters(xs, yd[k], b[k], s[k], w[k])[((p - 1) % 3) + 1]]

\* [y[0] for y in y_data]
YTicksOf(yd) == [k \in 1..Len(yd) |-> yd[k][1]]

\* the names y, b, s, w after the loop: those of its last turn, or as they were
LoopOf(yd, b, s, w) ==
  LET rows == MinOf(MinOf(Len(yd), Len(b)), MinOf(Len(s), Len(w)))
  IN IF rows = 0 THEN loop
     ELSE [y |-> yd[rows], b |-> b[rows], s |-> s[rows], w |-> w[rows]]

VisualizerCell(from, to) ==
  /\ pc = from
  /\ execution_count' = execution_count + 1
  /\ y_data' = YDataOf(series, x_range)
  /\ scatters' = ScattersOf(x_range, y_data', better, similar, worse)
  /\ loop' = LoopOf(y_data', better, similar, worse)
  /\ yticks' = YTicksOf(y_data')
  /\ pc' = to
  /\ UNCHANGED <<N, x_range, series_coef, series, dps, ref, refDps, x, r_orig,
                 r_series, err_orig, err_series, errDps, better, similar, worse,
                 difference, report, mpSinc, npSinc, polyval>>

Visualizer == VisualizerCell("plot", "done")

Next ==
  \/ SeriesBuilder
  \/ ReferenceEvaluator
  \/ Evaluate
  \/ Comparator
  \/ PrintEpsilon
  \/ Visualizer

Spec == Init /\ [][Next]_vars

\* ---- a cell run again after the whole notebook has run -------------------
CanRerun == execution_count < 6 + MaxReruns

RerunSeries == CanRerun /\ SeriesCell("done", "done")

RerunReference == CanRerun /\ ReferenceCell("done", "done")

RerunEvaluate == CanRerun /\ EvaluateCell("done", "done")

RerunComparator == CanRerun /\ ComparatorCell("done", "done")

RerunEpsilon == CanRerun /\ EpsilonCell("done", "done")

RerunVisualizer == CanRerun /\ VisualizerCell("done", "done")

NextRerun ==
  \/ Next
  \/ RerunSeries
  \/ RerunReference
  \/ RerunEvaluate
  \/ RerunComparator
  \/ RerunEpsilon
  \/ RerunVisualizer

SpecRerun == Init /\ [][NextRerun]_vars

\* ---- properties ---------------------------------------------------------
Classified == better # <<>>

Reported == pc \in {"epsilon", "plot", "done"}

\* C1: for every (order k, sample j) the comparator compares the direct error
\* at sample j with the order-k series error at the same sample j; the pair
\* is 'direct better' iff direct < series, 'equal' iff the two are equal,
\* 'series better' iff direct > series, and exactly one of the three holds.
C1_Trichotomy ==
  Classified =>
    /\ Len(better) = N - 1 /\ Len(similar) = N - 1 /\ Len(worse) = N - 1
    /\ \A k \in 1..(N - 1) :
         /\ Len(better[k]) = Len(x_range)
         /\ Len(similar[k]) = Len(x_range)
         /\ Len(worse[k]) = Len(x_range)
         /\ \A j \in 1..Len(x_range) :
              LET direct == Abs(r_orig[j] - ref[j])
                  ser == Abs(r_series[k][j] - ref[j])
              IN /\ better[k][j] <=> direct < ser
                 /\ similar[k][j] <=> direct = ser
                 /\ worse[k][j] <=> direct > ser
                 /\ Cardinality({m \in {"b", "s", "w"} :
                        \/ m = "b" /\ better[k][j]
                        \/ m = "s" /\ similar[k][j]
                        \/ m = "w" /\ worse[k][j]}) = 1

C1_Witness ==
  /\ pc = "done"
  /\ \E k1, k2, k3 \in 1..(N - 1) : \E j1, j2, j3 \in 1..Len(x_range) :
       better[k1][j1] /\ similar[k2][j2] /\ worse[k3][j3]

\* the error differences of order k over the samples where the direct error
\* is smaller, and over those where it is larger
DiffsDirectBetter(k) ==
  {Abs(err_orig[j] - err_series[k][j]) :
     j \in {i \in 1..Len(x_range) : err_orig[i] < err_series[k][i]}}

DiffsSeriesBetter(k) ==
  {Abs(err_orig[j] - err_series[k][j]) :
     j \in {i \in 1..Len(x_range) : err_orig[i] > err_series[k][i]}}

IsMinMaxOf(pair, D) ==
  /\ pair[1] \in D /\ pair[2] \in D
  /\ \A d \in D : pair[1] <= d /\ d <= pair[2]

\* C2 as stated: the reported (min, max) of each order is taken over the
\* samples classified 'direct better' (direct error < series error).
C2_ReportOverDirectBetter ==
  Reported =>
    /\ Len(report) = N - 1
    /\ \A k \in 1..(N - 1) : IsMinMaxOf(report[k], DiffsDirectBetter(k))

\* C2 amended: the reported (min, max) of each order is the minimum and the
\* maximum of |direct error - series error| over exactly the samples
\* classified 'series better' (direct error > series error).
C2_ReportOverSeriesBetter ==
  Reported =>
    /\ Len(report) = N - 1
    /\ \A k \in 1..(N - 1) : IsMinMaxOf(report[k], DiffsSeriesBetter(k))

C2_Witness ==
  /\ Reported
  /\ \E k \in 1..(N - 1) :
       \E j1, j2 \in 1..Len(x_range) :
         /\ better[k][j1] /\ worse[k][j2]
         /\ difference[k][j1] # difference[k][j2]
         /\ report[k] = <<difference[k][j2], difference[k][j2]>>

\* the coefficient of x^p in a polynomial, coefficients listed from the
\* highest power down
CoefAt(s, p) == s.coef[Len(s.coef) - p]

Powers(s) == 0..(Len(s.coef) - 1)

\* C4: in every series polynomial the coefficient of an odd power is zero and
\* the coefficient of x^(2i) is (-1)^i / (2i+1)!: the constant term is 1, and
\* from x^(2i-2) to x^(2i) the sign flips and the denominator is multiplied
\* by 2i and by 2i+1.
C4_Coefficients ==
  \A k \in 1..Len(series) : \A p \in Powers(series[k]) :
    LET c == CoefAt(series[k], p)
    IN /\ p % 2 = 1 => c.num = 0
       /\ p = 0 => c.num = 1 /\ c.den = 1
       /\ (p % 2 = 0 /\ p >= 2) =>
            /\ c.num = -CoefAt(series[k], p - 2).num
            /\ c.num \in {-1, 1}
            /\ c.den = CoefAt(series[k], p - 2).den * p * (p + 1)

C4_Witness ==
  /\ Len(series) = 2
  /\ CoefAt(series[2], 4) = [num |-> 1, den |-> 120]
  /\ CoefAt(series[2], 2) = [num |-> -1, den |-> 6]
  /\ CoefAt(series[2], 3).num = 0

\* C5: the builder returns N-1 polynomials, for orders 1..N-1 in increasing
\* order; the polynomial of order k has 2k+1 coefficients, highest power
\* first, and is the full coefficient list cut at power 2k, so two returned
\* polynomials agree on every power both contain.
C5_Truncations ==
  pc \notin {"series", "error"} =>
    /\ Len(series) = N - 1
    /\ \A k \in 1..Len(series) :
         /\ Len(series[k].coef) = 2 * k + 1
         /\ \A p \in Powers(series[k]) : CoefAt(series[k], p) = series_coef[p + 1]
    /\ \A k1, k2 \in 1..Len(series) :
         \A p \in Powers(series[k1]) \cap Powers(series[k2]) :
           CoefAt(series[k1], p) = CoefAt(series[k2], p)

C5_Witness ==
  /\ pc = "reference"
  /\ N = 3
  /\ Len(series) = 2
  /\ Len(series[1].coef) = 3
  /\ Len(series[2].coef) = 5

\* C6: the builder completes for every N >= 1: the N even-index coefficients
\* fit the even positions of the zero list of length 2N-1, every slice
\* 2k::-1 for k in 1..N-1 starts inside the list, and the run goes on to
\* the reference cell.
C6_BuilderCompletes ==
  pc # "series" =>
    /\ ~(pc = "error" /\ ref = <<>>)
    /\ Len(series_coef) = 2 * N - 1
    /\ Cardinality({p \in 1..Len(series_coef) : p % 2 = 1}) = N
    /\ Len(series) = N - 1
    /\ \A k \in 1..(N - 1) : 2 * k <= Len(series_coef) - 1

C6_Witness ==
  /\ pc = "reference"
  /\ N = 1
  /\ series = <<>>
  /\ Len(series_coef) = 1

\* C7: the reference list holds one value per sample, in sample order
\* (reference j is sin(x)/x of sample j), so the error lists pair the direct
\* and the series result at sample j with the reference of sample j and drop
\* no sample.
C7_ReferencePerSample ==
  /\ pc \notin {"series", "reference"} =>
       /\ Len(ref) = Len(x_range)
       /\ \A j \in 1..Len(x_range) : ref[j] = mpSinc[x_range[j]]
  /\ err_orig # <<>> =>
       /\ Len(err_orig) = Len(x_range)
       /\ Len(err_series) = N - 1
       /\ \A j \in 1..Len(x_range) :
            err_orig[j] = Abs(npSinc[x_range[j]] * Ulp - mpSinc[x_range[j]])
       /\ \A k \in 1..(N - 1) :
            /\ Len(err_series[k]) = Len(x_range)
            /\ \A j \in 1..Len(x_range) :
                 err_series[k][j] =
                   Abs(polyval[k][x_range[j]] * Ulp - mpSinc[x_range[j]])

C7_Witness ==
  /\ pc = "done"
  /\ Len(err_orig) = NumSamples
  /\ ref[1] # ref[Len(ref)]
  /\ err_orig[1] # err_orig[Len(err_orig)]

StageRank(l) ==
  CASE l = "series" -> 1
    [] l = "reference" -> 2
    [] l = "evaluate" -> 3
    [] l = "compare" -> 4
    [] l = "epsilon" -> 5
    [] l = "plot" -> 6
    [] l = "done" -> 7
    [] OTHER -> 0

\* C8: the stages run strictly in sequence (series, reference, comparison,
\* plot); the precision setting becomes 1000 in the reference cell, before the
\* first reference value is computed, no later step changes it, and every
\* reference value and every error is computed at 1000 digits.
C8_SequenceAndPrecision ==
  [][ /\ pc' # pc => (pc' = "error" \/ StageRank(pc') = StageRank(pc) + 1)
      /\ dps' # dps => (pc = "reference" /\ dps' = Dps)
      /\ StageRank(pc) > 2 => dps = Dps /\ dps' = Dps
      /\ ref' # ref => (pc = "reference" /\ refDps' = Dps)
      /\ (err_orig' # err_orig \/ err_series' # err_series) =>
           (pc = "compare" /\ errDps' = Dps)
      /\ series' # series => pc = "series"
      /\ scatters' # scatters => pc = "plot"
    ]_vars

C8_Witness ==
  /\ pc = "done"
  /\ dps = Dps /\ refDps = Dps /\ errDps = Dps
  /\ ref # <<>> /\ err_series # <<>> /\ scatters # <<>>

\* the markers drawn at sample j in the row y: scatter call and position
MarkersAt(xv, yv) ==
  {m \in (1..Len(scatters)) \X (1..NumSamples) :
     /\ m[2] <= Len(scatters[m[1]].xs)
     /\ scatters[m[1]].xs[m[2]] = xv
     /\ scatters[m[1]].ys[m[2]] = yv}

Green == [marker |-> "^", c |-> "#2ca02c"]

Blue == [marker |-> "o", c |-> "#1f77b4"]

Red == [marker |-> "v", c |-> "#d62728"]

StyleOf(m) == [marker |-> scatters[m[1]].marker, c |-> scatters[m[1]].c]

\* C9: for every (order, sample) exactly one marker is drawn, at the sample's
\* x value in the row of that order; it is the green upward triangle iff the
\* pair is 'direct better', the blue circle iff 'equal', the red downward
\* triangle iff 'series better'.
C9_MarkersReflectClasses ==
  pc = "done" =>
    \A k \in 1..(N - 1) : \A j \in 1..Len(x_range) :
      LET ms == MarkersAt(x_range[j], y_data[k][j])
      IN /\ Cardinality(ms) = 1
         /\ \A m \in ms :
              /\ StyleOf(m) \in {Green, Blue, Red}
              /\ StyleOf(m) = Green <=> err_orig[j] < err_series[k][j]
              /\ StyleOf(m) = Blue <=> err_orig[j] = err_series[k][j]
              /\ StyleOf(m) = Red <=> err_orig[j] > err_series[k][j]

C9_Witness ==
  /\ pc = "done"
  /\ \E p1, p2, p3 \in 1..Len(scatters) :
       /\ StyleOf(<<p1, 1>>) = Green /\ scatters[p1].xs # <<>>
       /\ StyleOf(<<p2, 1>>) = Blue /\ scatters[p2].xs # <<>>
       /\ StyleOf(<<p3, 1>>) = Red /\ scatters[p3].xs # <<>>

\* C10 as stated: the row (and the y tick) of each order is the degree of its
\* polynomial, 2 * order, one distinct row per order.
C10_RowIsDegree ==
  pc = "done" =>
    /\ Len(yticks) = N - 1
    /\ \A k \in 1..(N - 1) :
         /\ yticks[k] = 2 * k
         /\ \A j \in 1..Len(x_range) : y_data[k][j] = 2 * k

\* C10 amended: the row (and the y tick) of each order is the number of
\* coefficients of its polynomial, the degree plus one, 2 * order + 1, one
\* distinct row per order.
C10_RowIsCoefficientCount ==
  pc = "done" =>
    /\ Len(yticks) = N - 1
    /\ Len(y_data) = N - 1
    /\ \A k \in 1..(N - 1) :
         /\ yticks[k] = 2 * k + 1
         /\ yticks[k] = Len(series[k].coef)
         /\ Len(y_data[k]) = Len(x_range)
         /\ \A j \in 1..Len(x_range) : y_data[k][j] = yticks[k]
    /\ \A k1, k2 \in 1..(N - 1) : k1 # k2 => yticks[k1] # yticks[k2]
    /\ \A p \in 1..Len(scatters) : \A q \in 1..Len(scatters[p].ys) :
         scatters[p].ys[q] = 2 * (((p - 1) \div 3) + 1) + 1

C10_Witness ==
  /\ pc = "done"
  /\ N = 3
  /\ yticks = <<3, 5>>

\* C11: once the whole notebook has run, running any cell again leaves the
\* classification labels and the (min, max) pairs as they were and does not
\* fail: no cell reads what an earlier run left behind (the precision
\* setting, the names x and s).
C11_RerunReproduces ==
  [][ pc = "done" =>
        /\ pc' = "done"
        /\ better' = better /\ similar' = similar /\ worse' = worse
        /\ report' = report
    ]_vars

C11_Witness ==
  /\ pc = "done"
  /\ execution_count = 6 + MaxReruns
  /\ Classified
  /\ dps = Dps
  /\ x = x_range
  /\ loop # <<>>
  /\ loop.s = similar[N - 1]

C13_SamplesPositive ==
  /\ x_range # <<>> =>
       /\ Len(x_range) = NumSamples
       /\ \A j \in 1..Len(x_range) :
            /\ ~SampleIsZero(x_range[j])
            /\ x_range[j] >= LogStart * (IF NumSamples = 1 THEN 1 ELSE NumSamples - 1)
            /\ x_range[j] <= LogStop * (IF NumSamples = 1 THEN 1 ELSE NumSamples - 1)
  /\ pc = "error" => execution_count # 2
  /\ r_orig # <<>> => \A j \in 1..Len(x) : ~SampleIsZero(x[j])

C13_Witness ==
  /\ pc = "compare"
  /\ Len(ref) = NumSamples
  /\ Len(r_orig) = NumSamples
  /\ x_range[1] = LogStart * (NumSamples - 1)
  /\ x_range[1] < x_range[Len(x_range)]

\* C14: whenever the series value equals the direct value at a sample the
\* pair is 'equal', and a pair that is 'direct better' or 'series better' has
\* two different values.
C14_LabelsFollowValues ==
  Classified =>
    \A k \in 1..(N - 1) : \A j \in 1..Len(x_range) :
      /\ r_series[k][j] = r_orig[j] =>
           similar[k][j] /\ ~better[k][j] /\ ~worse[k][j]
      /\ (better[k][j] \/ worse[k][j]) => r_series[k][j] # r_orig[j]

C14_Witness ==
  /\ Classified
  /\ \E k \in 1..(N - 1) : \E j \in 1..Len(x_range) :
       similar[k][j] /\ r_series[k][j] # r_orig[j]
  /\ \E k \in 1..(N - 1) : \E j \in 1..Len(x_range) :
       similar[k][j] /\ r_series[k][j] = r_orig[j]
  /\ \E k \in 1..(N - 1) : \E j \in 1..Len(x_range) : better[k][j]

EmptySelection(k) == \A j \in 1..Len(worse[k]) : ~worse[k][j]

\* C15: a (min, max) pair is produced for an order only if some sample of
\* that order is in the selected mask; if the selection of some order is
\* empty the run stops with an error, no pair is printed and no plot is
\* drawn; a produced pair has min > 0 and min <= max.
C15_ReportNeedsSelection ==
  /\ Reported =>
       \A k \in 1..(N - 1) :
         /\ ~EmptySelection(k)
         /\ report[k][1] > 0
         /\ report[k][1] <= report[k][2]
  /\ (Classified /\ \E k \in 1..(N - 1) : EmptySelection(k)) =>
       /\ pc = "error"
       /\ report = <<>>
       /\ y_data = <<>> /\ scatters = <<>> /\ yticks = <<>>

C15_Witness ==
  /\ pc = "error"
  /\ Classified
  /\ \E k1, k2 \in 1..(N - 1) : EmptySelection(k1) /\ ~EmptySelection(k2)
====
